---------------------------- MODULE Spec2Model ----------------------------
(***************************************************************************)
(* A model of tools/syz-declextract/declextract.go: the syscall rename map *)
(* built from the kernel's *.tbl files (buildSyscallRenameMap,             *)
(* findTblFiles, parseTblFile) and the pipeline of run (extraction,        *)
(* checkpoint, parse, unused-node detection, constant extraction,          *)
(* finishInterfaces, serialize, pruning, final write).                     *)
(*                                                                         *)
(* A Go string or []byte is a sequence of one-character strings, so that   *)
(* strings.Fields, TrimPrefix, HasPrefix, Contains, Compare and the        *)
(* bufio.Scanner are computed on the text itself.  File paths of the       *)
(* description directory and node kinds/names are only compared and        *)
(* concatenated, and stay TLA+ strings.                                    *)
(***************************************************************************)
EXTENDS Naturals, Integers, Sequences, FiniteSets, TLC

VARIABLES
    tree,       \* the kernel source tree: [path -> file contents]
    pc,         \* position inside buildSyscallRenameMap
    tblFiles,   \* findTblFiles' result: [path -> sequence of VMArch]
    todoFiles,  \* keys `range tblFiles` has not visited yet
    syscalls,   \* map[string][]tblSyscall
    todoCalls,  \* keys `range syscalls` has not visited yet
    rename,     \* map[string][]string
    extern,     \* what the external collaborators return in this execution
    rpc,        \* position inside run
    disk,       \* description files on disk: [path -> sequence of declarations]
    diskInfo,   \* contents of autoFile+".info"
    descriptions, \* run's local: the extracted description text
    interfaces, \* run's local: []*declextract.Interface
    desc,       \* run's local: desc.Nodes
    unusedNodes,\* run's local: result of compiler.CollectUnused
    consts,     \* run's local: result of compiler.ExtractConsts
    unused      \* run's local: map[string]bool keyed by typ+name

tblVars == <<tree, pc, tblFiles, todoFiles, syscalls, todoCalls, rename>>
runVars == <<extern, rpc, disk, diskInfo, descriptions, interfaces, desc,
             unusedNodes, consts, unused>>
vars == <<tblVars, runVars>>

-----------------------------------------------------------------------------
(* Bounds of the model. *)

\* Total number of table lines in the tree.
MaxLines == 2
\* Number of declarations in a description file.
MaxDecls == 3
\* Number of Interface Records the extraction returns.
MaxIfaces == 2

-----------------------------------------------------------------------------
(* Text. *)

SP == " "
TAB == "\t"
NL == "\n"
CR == "\r"

\* The characters unicode.IsSpace accepts on the ASCII range, as
\* strings.Fields uses it.
SpaceChars == {" ", "\t", "\n", "\r", "\f"}

\* Byte values of the characters whose order strings.Compare and slices.Sort
\* may have to decide.
Byte(c) ==
    CASE c = "3" -> 51 [] c = "4" -> 52 [] c = "6" -> 54 [] c = "8" -> 56
      [] c = "a" -> 97 [] c = "d" -> 100 [] c = "e" -> 101 [] c = "f" -> 102
      [] c = "m" -> 109 [] c = "n" -> 110 [] c = "r" -> 114 [] c = "s" -> 115
      [] c = "t" -> 116

RECURSIVE Compare(_, _)
\* strings.Compare: -1, 0 or 1 by lexicographic byte order.
Compare(a, b) ==
    IF a = <<>> /\ b = <<>> THEN 0
    ELSE IF a = <<>> THEN -1
    ELSE IF b = <<>> THEN 1
    ELSE IF Head(a) = Head(b) THEN Compare(Tail(a), Tail(b))
    ELSE IF Byte(Head(a)) < Byte(Head(b)) THEN -1 ELSE 1

HasPrefix(s, p) == Len(s) >= Len(p) /\ SubSeq(s, 1, Len(p)) = p

HasSuffix(s, p) == Len(s) >= Len(p) /\ SubSeq(s, Len(s) - Len(p) + 1, Len(s)) = p

TrimPrefix(s, p) == IF HasPrefix(s, p) THEN SubSeq(s, Len(p) + 1, Len(s)) ELSE s

Contains(s, p) ==
    \E i \in 1..(Len(s) + 1) : i + Len(p) - 1 <= Len(s) /\ SubSeq(s, i, i + Len(p) - 1) = p

\* The least index from i on where s holds a character that is in chars
\* (want) or is not (~want), or Len(s) + 1.
IndexFrom(s, i, chars, want) ==
    LET hits == {j \in i..Len(s) : (s[j] \in chars) = want}
    IN IF hits = {} THEN Len(s) + 1 ELSE CHOOSE j \in hits : \A k \in hits : j <= k

RECURSIVE FieldsFrom(_, _)
\* The fields of s from index i on: skip the spaces, take the run up to the
\* next space.
FieldsFrom(s, i) ==
    LET start == IndexFrom(s, i, SpaceChars, FALSE)
        stop == IndexFrom(s, start, SpaceChars, TRUE)
    IN IF start > Len(s) THEN <<>>
       ELSE <<SubSeq(s, start, stop - 1)>> \o FieldsFrom(s, stop)

\* strings.Fields: the maximal runs of non-space characters.
Fields(s) == FieldsFrom(s, 1)

\* bufio.ScanLines drops one trailing carriage return of a line.
DropCR(l) == IF l # <<>> /\ l[Len(l)] = CR THEN SubSeq(l, 1, Len(l) - 1) ELSE l

RECURSIVE ScanFrom(_, _)
\* The tokens of bufio.ScanLines from index i on: up to the next newline, or
\* the non-empty rest of the data.
ScanFrom(data, i) ==
    LET stop == IndexFrom(data, i, {NL}, TRUE)
    IN IF i > Len(data) THEN <<>>
       ELSE <<DropCR(SubSeq(data, i, stop - 1))>> \o ScanFrom(data, stop + 1)

\* The lines bufio.Scanner yields for data (its default split function).
ScanLines(data) == ScanFrom(data, 1)

S_hash == <<"#">>
S_sys == <<"s", "y", "s", "_">>
S_unused == <<"u", "n", "u", "s", "e", "d">>
S_dash == <<"-">>
S_spu == <<"s", "p", "u">>
S_llseek == <<"l", "l", "s", "e", "e", "k">>
S_reboot == <<"r", "e", "b", "o", "o", "t">>
S_common == <<"c", "o", "m", "m", "o", "n">>
S_64 == <<"6", "4">>
S_tbl == <<".", "t", "b", "l">>

-----------------------------------------------------------------------------
(* Maps. *)

EmptyMap == <<>>

\* m[k] = append(m[k], v) for a map of slices.
MapAppend(m, k, v) ==
    IF k \in DOMAIN m THEN [m EXCEPT ![k] = Append(@, v)] ELSE m @@ (k :> <<v>>)

Range(s) == {s[i] : i \in DOMAIN s}

-----------------------------------------------------------------------------
(* The target and the supported architectures. *)

A_amd64 == <<"a", "m", "d", "6", "4">>
A_386 == <<"3", "8", "6">>
A_arm64 == <<"a", "r", "m", "6", "4">>

\* target = targets.Get(targets.Linux, targets.AMD64)
targetArch == A_amd64

\* targets.List[target.OS]: KernelHeaderArch and VMArch of each architecture.
TargetsList ==
    { [KernelHeaderArch |-> "x86", VMArch |-> A_amd64],
      [KernelHeaderArch |-> "x86", VMArch |-> A_386],
      [KernelHeaderArch |-> "arm64", VMArch |-> A_arm64] }

-----------------------------------------------------------------------------
(* parseTblFile. *)

\* A faulty filter: the two names excluded by hand are let through.
ExcludedButNames(group, syscall, fn) ==
    \/ HasPrefix(syscall, S_unused)
    \/ fn = S_dash
    \/ group = S_spu

\* The filter of parseTblFile: the candidate is dropped.
Excluded(group, syscall, fn) ==
    \/ HasPrefix(syscall, S_unused)
    \/ fn = S_dash
    \/ group = S_spu
    \/ syscall = S_llseek
    \/ syscall = S_reboot

\* The first `continue` of parseTblFile's loop.
Skipped(fields) == Len(fields) < 4 \/ fields[1] = S_hash

Is64bit(group) == group = S_common \/ Contains(group, S_64)

\* One iteration of parseTblFile's loop over the scanner's lines.
ParseLine(line, arch, m) ==
    LET fields == Fields(line) IN
    IF Skipped(fields) THEN m
    ELSE LET group == fields[2]
             syscall == fields[3]
             fn == TrimPrefix(fields[4], S_sys)
         IN IF Excluded(group, syscall, fn) THEN m
            ELSE MapAppend(m, syscall,
                           [fn |-> fn, arch |-> arch, is64bit |-> Is64bit(group)])

RECURSIVE ParseLines(_, _, _)
ParseLines(lines, arch, m) ==
    IF lines = <<>> THEN m
    ELSE ParseLines(Tail(lines), arch, ParseLine(Head(lines), arch, m))

parseTblFile(data, arch, m) == ParseLines(ScanLines(data), arch, m)

RECURSIVE ParseArches(_, _, _)
\* The inner loop of buildSyscallRenameMap: the file is parsed once per arch.
ParseArches(data, arches, m) ==
    IF arches = <<>> THEN m
    ELSE ParseArches(data, Tail(arches), parseTblFile(data, Head(arches), m))

-----------------------------------------------------------------------------
(* The tie-break of buildSyscallRenameMap. *)

\* A faulty comparison: the width is looked at before the architecture.
cmpWidthFirst(a, b) ==
    IF a.is64bit # b.is64bit
    THEN (IF a.is64bit THEN -1 ELSE 1)
    ELSE IF (a.arch = targetArch) # (b.arch = targetArch)
         THEN (IF a.arch = targetArch THEN -1 ELSE 1)
         ELSE Compare(a.arch, b.arch)

\* The comparison function handed to slices.SortFunc.
cmp(a, b) ==
    IF (a.arch = targetArch) # (b.arch = targetArch)
    THEN (IF a.arch = targetArch THEN -1 ELSE 1)
    ELSE IF a.is64bit # b.is64bit
         THEN (IF a.is64bit THEN -1 ELSE 1)
         ELSE Compare(a.arch, b.arch)

RECURSIVE SinkLeft(_, _)
\* for j := i; j > a && cmp(data[j], data[j-1]) < 0; j-- { swap }
SinkLeft(s, j) ==
    IF j > 1 /\ cmp(s[j], s[j - 1]) < 0
    THEN SinkLeft([s EXCEPT ![j] = s[j - 1], ![j - 1] = s[j]], j - 1)
    ELSE s

RECURSIVE InsertionSort(_, _)
InsertionSort(s, i) == IF i > Len(s) THEN s ELSE InsertionSort(SinkLeft(s, i), i + 1)

\* slices.SortFunc on a slice of at most 12 elements is an insertion sort; the
\* candidate lists of the trees explored here are shorter.
SortFunc(s) == InsertionSort(s, 2)

\* The record buildSyscallRenameMap takes as authoritative: descs[0] after sorting.
Chosen(descs) == SortFunc(descs)[1]

\* A faulty update: rename[fn] = []string{syscall} drops the names filed before.
RenameOverwrite(m, descs, syscall) ==
    [fn \in DOMAIN m \cup {Chosen(descs).fn} |->
       IF fn = Chosen(descs).fn THEN <<syscall>> ELSE m[fn]]

\* fn := descs[0].fn; rename[fn] = append(rename[fn], syscall)
RenameAppend(m, descs, syscall) == MapAppend(m, Chosen(descs).fn, syscall)

-----------------------------------------------------------------------------
(* findTblFiles. *)

\* The files filepath.Walk reports under arch/<dir> that pass the suffix test.
TblUnder(dir) == {f \in DOMAIN tree : f.dir = dir /\ HasSuffix(f.name, S_tbl)}

RECURSIVE FilesFor(_, _)
\* The map findTblFiles builds when the architectures are ranged in this order.
FilesFor(order, m) ==
    IF order = <<>> THEN m
    ELSE LET arch == Head(order)
             found == TblUnder(arch.KernelHeaderArch)
             m1 == [f \in (DOMAIN m) \cup found |->
                      IF f \in found
                      THEN (IF f \in DOMAIN m THEN Append(m[f], arch.VMArch)
                            ELSE <<arch.VMArch>>)
                      ELSE m[f]]
         IN FilesFor(Tail(order), m1)

Orders(S) == {o \in [1..Cardinality(S) -> S] : Range(o) = S}

-----------------------------------------------------------------------------
(* buildSyscallRenameMap, step by step. *)

\* findTblFiles: the range over targets.List is in an order Go does not fix;
\* a failing filepath.Walk makes buildSyscallRenameMap return the error.
FindTblFiles ==
    /\ pc = "find"
    /\ \E walkOk \in BOOLEAN :
         IF ~walkOk
         THEN /\ pc' = "error"
              /\ UNCHANGED <<tblFiles, todoFiles>>
         ELSE \E order \in Orders(TargetsList) :
                LET files == FilesFor(order, EmptyMap) IN
                /\ tblFiles' = files
                /\ todoFiles' = DOMAIN files
                /\ pc' = IF DOMAIN files = {} THEN "error" ELSE "parse"
    /\ UNCHANGED <<tree, syscalls, todoCalls, rename, runVars>>

\* One iteration of `for file, arches := range tblFiles`: any key not visited yet.
ParseFile ==
    /\ pc = "parse"
    /\ \E file \in todoFiles, readOk \in BOOLEAN :
         IF ~readOk
         THEN /\ pc' = "error"
              /\ UNCHANGED <<todoFiles, syscalls, todoCalls>>
         ELSE /\ syscalls' = ParseArches(tree[file], tblFiles[file], syscalls)
              /\ todoFiles' = todoFiles \ {file}
              /\ IF todoFiles' = {}
                 THEN /\ pc' = "rename"
                      /\ todoCalls' = DOMAIN syscalls'
                 ELSE /\ pc' = "parse"
                      /\ UNCHANGED todoCalls
    /\ UNCHANGED <<tree, tblFiles, rename, runVars>>

\* One iteration of `for syscall, descs := range syscalls`.
RenameCall ==
    /\ pc = "rename"
    /\ \E syscall \in todoCalls :
         /\ rename' = RenameAppend(rename, syscalls[syscall], syscall)
         /\ syscalls' = [syscalls EXCEPT ![syscall] = SortFunc(@)]
         /\ todoCalls' = todoCalls \ {syscall}
    /\ UNCHANGED <<tree, pc, tblFiles, todoFiles, runVars>>

\* return rename, nil
ReturnRename ==
    /\ pc = "rename"
    /\ todoCalls = {}
    /\ pc' = "done"
    /\ UNCHANGED <<tree, tblFiles, todoFiles, syscalls, todoCalls, rename, runVars>>

TblNext == FindTblFiles \/ ParseFile \/ RenameCall \/ ReturnRename

-----------------------------------------------------------------------------
(* Kernel trees the model is run on. *)

F_a == [dir |-> "x86", name |-> <<"a">> \o S_tbl]
F_b == [dir |-> "x86", name |-> <<"b">> \o S_tbl]
F_c == [dir |-> "arm64", name |-> <<"c">> \o S_tbl]
\* A file that is not a table: the suffix test of findTblFiles leaves it out.
F_mk == [dir |-> "x86", name |-> <<"M", "k">>]

G_i386 == <<"i", "3", "8", "6">>
G_x32 == <<"x", "3", "2">>

\* A table line: number, group, syscall name, entry point, separated by sep.
TblLine(num, group, syscall, entry, sep) ==
    num \o sep \o group \o sep \o syscall \o sep \o entry

\* Lines that make the tie-break decide: two names, two symbols, both widths.
TieLines ==
    { TblLine(<<"1">>, S_common, <<"x">>, S_sys \o <<"a">>, <<SP>>),
      TblLine(<<"1">>, G_i386, <<"x">>, S_sys \o <<"a">>, <<SP>>),
      TblLine(<<"1">>, G_i386, <<"x">>, S_sys \o <<"b">>, <<SP>>),
      TblLine(<<"1">>, S_64, <<"x">>, <<"b">>, <<TAB>>),
      TblLine(<<"1">>, S_common, <<"y">>, S_sys \o <<"a">>, <<SP, SP>>),
      TblLine(<<"1">>, G_x32, <<"y">>, <<"b">>, <<SP>>) }

\* Lines that exercise the two filters of parseTblFile.
FilterLines ==
    { TblLine(<<"1">>, S_common, <<"x">>, S_sys \o <<"a">>, <<SP>>),
      TblLine(<<"1">>, G_i386, <<"y">>, <<"b">>, <<TAB>>),
      TblLine(<<"1">>, S_common, S_reboot, S_sys \o S_reboot, <<SP>>),
      TblLine(<<"1">>, S_common, S_llseek, S_sys \o S_llseek, <<SP>>),
      TblLine(<<"1">>, S_spu, <<"x">>, S_sys \o <<"a">>, <<SP>>),
      TblLine(<<"1">>, S_common, S_unused \o <<"1">>, S_sys \o <<"a">>, <<SP>>),
      TblLine(<<"1">>, S_common, <<"x">>, S_dash, <<SP>>),
      TblLine(<<"1">>, S_common, <<"y">>, S_sys \o S_dash, <<SP>>),
      TblLine(<<"1">>, S_common, <<"y">>, S_sys \o <<"a">>, <<SP>>) \o <<SP, "-">>,
      TblLine(S_hash, S_common, <<"x">>, S_sys \o <<"a">>, <<SP>>),
      TblLine(S_hash \o <<"1">>, S_common, <<"x">>, S_sys \o <<"a">>, <<SP>>),
      TblLine(S_hash \o <<"1">>, S_common, <<"y">>, <<"b">>, <<SP>>) \o <<CR>>,
      <<"1", SP>> \o S_common \o <<SP, "x">>,
      S_hash,
      <<>> }

SeqsUpTo(S, n) == UNION {[1..k -> S] : k \in 0..n}

RECURSIVE Join(_)
\* The text of a file holding these lines, each ended by a newline.
Join(lines) == IF lines = <<>> THEN <<>> ELSE Head(lines) \o <<NL>> \o Join(Tail(lines))

RECURSIVE LinesOf(_, _, _)
\* The lines of ls that at assigns to file f, in order.
LinesOf(ls, at, f) ==
    IF ls = <<>> THEN <<>>
    ELSE (IF Head(at) = f THEN <<Head(ls)>> ELSE <<>>) \o LinesOf(Tail(ls), Tail(at), f)

\* The tree whose table files hold the lines ls, line i in file at[i]; a file
\* without lines does not exist.
TreeOf(ls, at) ==
    [f \in Range(at) \cup {F_mk} |->
       IF f = F_mk THEN Join(<<TblLine(<<"1">>, S_common, <<"z">>, <<"z">>, <<SP>>)>>)
       ELSE Join(LinesOf(ls, at, f))]

TreesOver(lines, files) ==
    { TreeOf(ls, at) : <<ls, at>> \in
        UNION { [1..k -> lines] \X [1..k -> files] : k \in 0..MaxLines } }

TieTrees == TreesOver(TieLines, {F_a, F_b, F_c})
FilterTrees == TreesOver(FilterLines, {F_a})

-----------------------------------------------------------------------------
(* buildSyscallRenameMap called on its own. *)

TblStart ==
    /\ pc = "find"
    /\ tblFiles = EmptyMap
    /\ todoFiles = {}
    /\ syscalls = EmptyMap
    /\ todoCalls = {}
    /\ rename = EmptyMap

RunIdle ==
    /\ extern = <<>>
    /\ rpc = "idle"
    /\ disk = <<>>
    /\ diskInfo = <<>>
    /\ descriptions = <<>>
    /\ interfaces = <<>>
    /\ desc = <<>>
    /\ unusedNodes = <<>>
    /\ consts = <<>>
    /\ unused = {}

Init ==
    /\ tree \in TieTrees \cup FilterTrees
    /\ TblStart
    /\ RunIdle

Next == TblNext

Spec == Init /\ [][Next]_vars

-----------------------------------------------------------------------------
(* The Identity Map and the priority order, as the specification words them. *)

\* The Identity Map: entry symbol -> set of syscall names.
Identity == [fn \in DOMAIN rename |-> Range(rename[fn])]

\* Lines of the table files findTblFiles found.
TableLines == UNION {Range(ScanLines(tree[f])) : f \in DOMAIN tblFiles}

ArchRank(a) == CASE a = A_386 -> 1 [] a = A_amd64 -> 2 [] a = A_arm64 -> 3

\* The priority tuple (isTargetArch, is64Bit, archName); smaller is better.
Priority(r) ==
    <<IF r.arch = targetArch THEN 0 ELSE 1, IF r.is64bit THEN 0 ELSE 1, ArchRank(r.arch)>>

PriorityLess(p, q) ==
    \/ p[1] < q[1]
    \/ p[1] = q[1] /\ p[2] < q[2]
    \/ p[1] = q[1] /\ p[2] = q[2] /\ p[3] < q[3]

\* r is a minimum of the candidate list.
Minimal(r, descs) ==
    r \in Range(descs) /\ \A s \in Range(descs) : ~PriorityLess(Priority(s), Priority(r))

\* The entry symbols of the minima of a name's candidate list.
AuthSyms(name) == {r.fn : r \in {s \in Range(syscalls[name]) : Minimal(s, syscalls[name])}}

\* The places of the rename map that hold the name.
Places(name) ==
    UNION { {<<fn, i>> : i \in {j \in DOMAIN rename[fn] : rename[fn][j] = name}} :
            fn \in DOMAIN rename }

-----------------------------------------------------------------------------
(* C1: determinism.  The reference run ranges the architectures and the    *)
(* files in one fixed order; a deterministic resolver returns its map in   *)
(* every run.                                                              *)

RefFiles == FilesFor(CHOOSE o \in Orders(TargetsList) : TRUE, EmptyMap)

RECURSIVE ParseInOrder(_, _)
ParseInOrder(files, m) ==
    IF files = <<>> THEN m
    ELSE ParseInOrder(Tail(files), ParseArches(tree[Head(files)], RefFiles[Head(files)], m))

RefSyscalls == ParseInOrder(CHOOSE o \in Orders(DOMAIN RefFiles) : TRUE, EmptyMap)

RefIdentity ==
    [fn \in {Chosen(RefSyscalls[n]).fn : n \in DOMAIN RefSyscalls} |->
       {n \in DOMAIN RefSyscalls : Chosen(RefSyscalls[n]).fn = fn}]

\* C1: for a fixed tree, every enumeration order of the files and of the
\* architectures yields the same Identity Map (same keys, same name sets).
C1_Determinism == pc = "done" => Identity = RefIdentity

-----------------------------------------------------------------------------
\* C2: the record chosen for a syscall name is a minimum of its candidate
\* list under the priority order (target architecture, then 64-bit, then
\* architecture identifier ascending): the name is filed only under the
\* entry symbol of such a minimum.
C2_TieBreak ==
    pc = "done" =>
      \A name \in DOMAIN syscalls :
        /\ \E fn \in DOMAIN rename : name \in Range(rename[fn])
        /\ \A fn \in DOMAIN rename : name \in Range(rename[fn]) => fn \in AuthSyms(name)

\* A target-architecture 32-bit record won against a 64-bit record of another
\* architecture that names another symbol.
C2_Witness ==
    /\ pc = "done"
    /\ \E name \in DOMAIN syscalls :
         \E r, s \in Range(syscalls[name]) :
           /\ r.arch = targetArch /\ ~r.is64bit
           /\ s.arch # targetArch /\ s.is64bit
           /\ r.fn # s.fn
           /\ \A t \in Range(syscalls[name]) : t.arch = targetArch => ~t.is64bit
           /\ r.fn \in DOMAIN rename /\ name \in Range(rename[r.fn])

-----------------------------------------------------------------------------
(* C5: the exclusion filter, worded on the table lines. *)

\* The line is one the filter discards.
LineExcluded(fields) ==
    \/ HasPrefix(fields[3], S_unused)
    \/ fields[3] \in {S_reboot, S_llseek}
    \/ fields[2] = S_spu
    \/ TrimPrefix(fields[4], S_sys) = S_dash

\* A line of at least 4 fields for this name and symbol that the filter keeps.
KeptLineFor(name, fn) ==
    \E line \in TableLines :
      LET fields == Fields(line) IN
      /\ Len(fields) >= 4
      /\ fields[3] = name
      /\ TrimPrefix(fields[4], S_sys) = fn
      /\ ~LineExcluded(fields)

\* C5: an excluded line contributes no candidate record: every record stems
\* from a kept line; reboot and llseek are in no value set of the map, `-`
\* is never a key, and a name whose every line is excluded is in no value set.
C5_Exclusion ==
    /\ \A name \in DOMAIN syscalls :
         \A r \in Range(syscalls[name]) : KeptLineFor(name, r.fn)
    /\ \A fn \in DOMAIN rename :
         /\ fn # S_dash
         /\ S_reboot \notin Range(rename[fn])
         /\ S_llseek \notin Range(rename[fn])
         /\ \A name \in Range(rename[fn]) : \E f \in DOMAIN rename : KeptLineFor(name, f)

\* The map was returned for a tree holding an excluded line and a kept one.
C5_Witness ==
    /\ pc = "done"
    /\ rename # EmptyMap
    /\ \E line \in TableLines :
         Len(Fields(line)) >= 4 /\ Head(line) # "#" /\ LineExcluded(Fields(line))

-----------------------------------------------------------------------------
\* C6: in the returned map every syscall name with a surviving candidate
\* record stands exactly once, under one entry symbol, which is that of a
\* minimum of its candidates; no other name stands in the map; two names
\* with the same authoritative symbol stand in that symbol's set together.
C6_MapShape ==
    pc = "done" =>
      /\ \A name \in DOMAIN syscalls : Cardinality(Places(name)) = 1
      /\ \A fn \in DOMAIN rename : Range(rename[fn]) \subseteq DOMAIN syscalls
      /\ \A n1, n2 \in DOMAIN syscalls :
           \A fn \in AuthSyms(n1) :
             AuthSyms(n1) = {fn} /\ AuthSyms(n2) = {fn} =>
               fn \in DOMAIN rename /\ {n1, n2} \subseteq Range(rename[fn])

\* Two names were resolved to one entry symbol.
C6_Witness ==
    /\ pc = "done"
    /\ \E fn \in DOMAIN rename : Cardinality(Range(rename[fn])) >= 2

-----------------------------------------------------------------------------
\* C10: no candidate record stems from a line that starts with `#` or has
\* fewer than 4 fields: every record has a line that does not start with
\* `#`, has at least 4 fields, and names its syscall and its entry symbol.
C10_IgnoredLines ==
    \A name \in DOMAIN syscalls :
      \A r \in Range(syscalls[name]) :
        \E line \in TableLines :
          /\ Len(Fields(line)) >= 4
          /\ Head(line) # "#"
          /\ Fields(line)[3] = name
          /\ TrimPrefix(Fields(line)[4], S_sys) = r.fn

-----------------------------------------------------------------------------
(* The description files and the external collaborators of run. *)

\* run(filepath.FromSlash("sys/linux/auto.txt"), ...)
autoFile == "sys/linux/auto.txt"
\* A hand-authored description file of the same directory.
manualFile == "sys/linux/sys.txt"

\* filepath.Glob of sys/linux/*.txt returns the names sorted.
GlobFiles == <<autoFile, manualFile>>

RECURSIVE ParseText(_, _)
\* ast.Parse: the declarations of a text as nodes positioned in file.
ParseText(text, file) ==
    IF text = <<>> THEN <<>>
    ELSE <<[file |-> file, typ |-> Head(text).typ, name |-> Head(text).name]>>
         \o ParseText(Tail(text), file)

RECURSIVE Format(_)
\* ast.Format: the text of the nodes, in order.
Format(nodes) ==
    IF nodes = <<>> THEN <<>>
    ELSE <<[typ |-> Head(nodes).typ, name |-> Head(nodes).name]>> \o Format(Tail(nodes))

RECURSIVE ParseFiles(_, _)
ParseFiles(files, d) ==
    IF files = <<>> THEN <<>>
    ELSE ParseText(d[Head(files)], Head(files)) \o ParseFiles(Tail(files), d)

\* ast.ParseGlob: the nodes of every description file of the directory.
ParseGlob(d) == ParseFiles(GlobFiles, d)

\* The subsystem the classifier gives a source path.
SubsystemOf(path) == IF Head(path) = "n" THEN <<"n", "e", "t">> ELSE <<"f", "s">>

RECURSIVE Extract(_, _)
\* extractor.Extract: the subsystems of the paths, each once.
Extract(files, acc) ==
    IF files = <<>> THEN acc
    ELSE Extract(Tail(files),
                 IF SubsystemOf(Head(files)) \in Range(acc) THEN acc
                 ELSE Append(acc, SubsystemOf(Head(files))))

-----------------------------------------------------------------------------
(* serialize. *)

S_func == <<"f", "u", "n", "c", ":">>
S_access == <<"a", "c", "c", "e", "s", "s", ":">>
S_manual == <<"m", "a", "n", "u", "a", "l", "_", "d", "e", "s", "c", ":">>
S_auto == <<"a", "u", "t", "o", "_", "d", "e", "s", "c", ":">>
S_file == <<"f", "i", "l", "e", ":">>
S_subsystem == <<"s", "u", "b", "s", "y", "s", "t", "e", "m", ":">>

\* %v of a bool.
FormatBool(b) == IF b THEN <<"t", "r", "u", "e">> ELSE <<"f", "a", "l", "s", "e">>

RECURSIVE Tagged(_, _)
\* for _, v := range list { fmt.Fprintf(w, "\t<tag>%v", v) }
Tagged(tag, list) ==
    IF list = <<>> THEN <<>>
    ELSE <<TAB>> \o tag \o Head(list) \o Tagged(tag, Tail(list))

\* A faulty line: the subsystem: fields are written before the file: fields.
serializeLineSubsystemsFirst(iface) ==
    iface.Type \o <<TAB>> \o iface.Name
      \o <<TAB>> \o S_func \o iface.Func
      \o <<TAB>> \o S_access \o iface.Access
      \o <<TAB>> \o S_manual \o FormatBool(iface.ManualDescriptions)
      \o <<TAB>> \o S_auto \o FormatBool(iface.AutoDescriptions)
      \o Tagged(S_subsystem, iface.Subsystems)
      \o Tagged(S_file, iface.Files)
      \o <<NL>>

\* The line serialize writes for one Interface.
serializeLine(iface) ==
    iface.Type \o <<TAB>> \o iface.Name
      \o <<TAB>> \o S_func \o iface.Func
      \o <<TAB>> \o S_access \o iface.Access
      \o <<TAB>> \o S_manual \o FormatBool(iface.ManualDescriptions)
      \o <<TAB>> \o S_auto \o FormatBool(iface.AutoDescriptions)
      \o Tagged(S_file, iface.Files)
      \o Tagged(S_subsystem, iface.Subsystems)
      \o <<NL>>

RECURSIVE serialize(_)
serialize(ifaces) ==
    IF ifaces = <<>> THEN <<>> ELSE serializeLine(Head(ifaces)) \o serialize(Tail(ifaces))

-----------------------------------------------------------------------------
(* finishInterfaces. *)

\* A faulty collection: the constants of autoFile count as manual too.
AllConsts(cs) == UNION {cs[file] : file \in DOMAIN cs}

\* The constants declared by a file other than autoFile.
ManualConsts(cs) == UNION {cs[file] : file \in {f \in DOMAIN cs : f # autoFile}}

RECURSIVE SinkString(_, _)
SinkString(s, j) ==
    IF j > 1 /\ Compare(s[j], s[j - 1]) < 0
    THEN SinkString([s EXCEPT ![j] = s[j - 1], ![j - 1] = s[j]], j - 1)
    ELSE s

RECURSIVE SortFrom(_, _)
SortFrom(s, i) == IF i > Len(s) THEN s ELSE SortFrom(SinkString(s, i), i + 1)

\* slices.Sort of a short slice of strings.
SortStrings(s) == SortFrom(s, 2)

\* The body of finishInterfaces' loop over the interfaces.
FinishInterface(iface, manual) ==
    [iface EXCEPT !.ManualDescriptions = iface.IdentifyingConst \in manual,
                  !.Subsystems = SortStrings(@ \o Extract(iface.Files, <<>>))]

finishInterfaces(ifaces, cs) ==
    [i \in DOMAIN ifaces |-> FinishInterface(ifaces[i], ManualConsts(cs))]

-----------------------------------------------------------------------------
(* Pruning. *)

\* unused[typ+name] = true for every node CollectUnused returned.
UnusedKeys(nodes) == {n.typ \o n.name : n \in nodes}

\* A faulty predicate: only unused nodes of autoFile are deleted, the nodes of
\* the other files stay.
PruneOnlyUnusedAuto(n, keys) == n.file = autoFile /\ (n.typ \o n.name) \in keys

\* A faulty predicate: the unused map is not consulted.
PruneForeignOnly(n, keys) == n.file # autoFile

\* The predicate handed to slices.DeleteFunc.
PruneDeletes(n, keys) == n.file # autoFile \/ (n.typ \o n.name) \in keys

RECURSIVE DeleteFunc(_, _)
DeleteFunc(nodes, keys) ==
    IF nodes = <<>> THEN <<>>
    ELSE (IF PruneDeletes(Head(nodes), keys) THEN <<>> ELSE <<Head(nodes)>>)
         \o DeleteFunc(Tail(nodes), keys)

-----------------------------------------------------------------------------
(* run, step by step. *)

\* A faulty order: the parse begins right after the extraction, without the
\* two checkpoint writes.
NextPosNoCheckpoint(p) ==
    CASE p = "build" -> "extract"
      [] p = "extract" -> "parse"
      [] p = "writeAuto" -> "writeInfo"
      [] p = "writeInfo" -> "parse"
      [] p = "parse" -> "unused"
      [] p = "unused" -> "consts"
      [] p = "consts" -> "finish"
      [] p = "finish" -> "prune"
      [] p = "prune" -> "final"
      [] p = "final" -> "ok"

\* The statement run goes on with when the step at p succeeded.
NextPos(p) ==
    CASE p = "build" -> "extract"
      [] p = "extract" -> "writeAuto"
      [] p = "writeAuto" -> "writeInfo"
      [] p = "writeInfo" -> "parse"
      [] p = "parse" -> "unused"
      [] p = "unused" -> "consts"
      [] p = "consts" -> "finish"
      [] p = "finish" -> "prune"
      [] p = "prune" -> "final"
      [] p = "final" -> "ok"

\* What a failed osutil.WriteFile may leave of the file: the old contents or
\* nothing.
AfterFailedWrite(old) == {old, <<>>}

\* syscallRename, err := buildSyscallRenameMap(cfg.KernelSrc)
RunBuild ==
    /\ rpc = "build"
    /\ pc \in {"done", "error"}
    /\ rpc' = IF pc = "error" THEN "failedBuild" ELSE NextPos(rpc)
    /\ UNCHANGED <<tblVars, extern, disk, diskInfo, descriptions, interfaces, desc,
                   unusedNodes, consts, unused>>

\* clangtool.Run and declextract.Run: either fails, or both hand over the
\* description text and the interfaces.
RunExtract ==
    /\ rpc = "extract"
    /\ \E ok \in BOOLEAN :
         IF ok
         THEN /\ descriptions' = extern.descriptions
              /\ interfaces' = extern.interfaces
              /\ rpc' = NextPos(rpc)
         ELSE /\ rpc' = "failedExtract"
              /\ UNCHANGED <<descriptions, interfaces>>
    /\ UNCHANGED <<tblVars, extern, disk, diskInfo, desc, unusedNodes, consts, unused>>

\* osutil.WriteFile(autoFile, descriptions)
RunWriteAuto ==
    /\ rpc = "writeAuto"
    /\ \E ok \in BOOLEAN :
         IF ok
         THEN /\ disk' = [disk EXCEPT ![autoFile] = descriptions]
              /\ rpc' = NextPos(rpc)
         ELSE /\ \E left \in AfterFailedWrite(disk[autoFile]) :
                   disk' = [disk EXCEPT ![autoFile] = left]
              /\ rpc' = "failedWriteAuto"
    /\ UNCHANGED <<tblVars, extern, diskInfo, descriptions, interfaces, desc,
                   unusedNodes, consts, unused>>

\* osutil.WriteFile(autoFile+".info", serialize(interfaces))
RunWriteInfo ==
    /\ rpc = "writeInfo"
    /\ \E ok \in BOOLEAN :
         IF ok
         THEN /\ diskInfo' = serialize(interfaces)
              /\ rpc' = NextPos(rpc)
         ELSE /\ diskInfo' \in AfterFailedWrite(diskInfo)
              /\ rpc' = "failedWriteInfo"
    /\ UNCHANGED <<tblVars, extern, disk, descriptions, interfaces, desc,
                   unusedNodes, consts, unused>>

\* desc := ast.ParseGlob(...); nil makes run return the parse errors.
RunParse ==
    /\ rpc = "parse"
    /\ \E ok \in BOOLEAN :
         IF ok
         THEN /\ desc' = ParseGlob(disk)
              /\ rpc' = NextPos(rpc)
         ELSE /\ rpc' = "failedParse"
              /\ UNCHANGED desc
    /\ UNCHANGED <<tblVars, extern, disk, diskInfo, descriptions, interfaces,
                   unusedNodes, consts, unused>>

\* unusedNodes, err := compiler.CollectUnused(desc.Clone(), target, eh)
RunCollectUnused ==
    /\ rpc = "unused"
    /\ \E ok \in BOOLEAN :
         IF ok
         THEN /\ unusedNodes' = Range(desc) \cap extern.unusedNodes
              /\ rpc' = NextPos(rpc)
         ELSE /\ rpc' = "failedUnused"
              /\ UNCHANGED unusedNodes
    /\ UNCHANGED <<tblVars, extern, disk, diskInfo, descriptions, interfaces, desc,
                   consts, unused>>

\* consts := compiler.ExtractConsts(desc.Clone(), target, eh)
RunExtractConsts ==
    /\ rpc = "consts"
    /\ \E ok \in BOOLEAN :
         IF ok
         THEN /\ consts' = extern.consts
              /\ rpc' = NextPos(rpc)
         ELSE /\ rpc' = "failedConsts"
              /\ UNCHANGED consts
    /\ UNCHANGED <<tblVars, extern, disk, diskInfo, descriptions, interfaces, desc,
                   unusedNodes, unused>>

\* finishInterfaces(interfaces, consts, autoFile), then the catalog is
\* written again.
RunFinish ==
    /\ rpc = "finish"
    /\ interfaces' = finishInterfaces(interfaces, consts)
    /\ \E ok \in BOOLEAN :
         IF ok
         THEN /\ diskInfo' = serialize(interfaces')
              /\ rpc' = NextPos(rpc)
         ELSE /\ diskInfo' \in AfterFailedWrite(diskInfo)
              /\ rpc' = "failedWriteInfo2"
    /\ UNCHANGED <<tblVars, extern, disk, descriptions, desc, unusedNodes, consts, unused>>

\* The unused map is filled and desc.Nodes is filtered.
RunPrune ==
    /\ rpc = "prune"
    /\ unused' = UnusedKeys(unusedNodes)
    /\ desc' = DeleteFunc(desc, unused')
    /\ rpc' = NextPos(rpc)
    /\ UNCHANGED <<tblVars, extern, disk, diskInfo, descriptions, interfaces,
                   unusedNodes, consts>>

\* formatted := ast.Format(ast.Parse(ast.Format(desc), autoFile, nil));
\* return osutil.WriteFile(autoFile, formatted)
RunWriteFinal ==
    /\ rpc = "final"
    /\ \E ok \in BOOLEAN :
         IF ok
         THEN /\ disk' = [disk EXCEPT ![autoFile] = Format(ParseText(Format(desc), autoFile))]
              /\ rpc' = NextPos(rpc)
         ELSE /\ \E left \in AfterFailedWrite(disk[autoFile]) :
                   disk' = [disk EXCEPT ![autoFile] = left]
              /\ rpc' = "failedWriteFinal"
    /\ UNCHANGED <<tblVars, extern, diskInfo, descriptions, interfaces, desc,
                   unusedNodes, consts, unused>>

RunNext ==
    \/ RunBuild
    \/ RunExtract
    \/ RunWriteAuto
    \/ RunWriteInfo
    \/ RunParse
    \/ RunCollectUnused
    \/ RunExtractConsts
    \/ RunFinish
    \/ RunPrune
    \/ RunWriteFinal

-----------------------------------------------------------------------------
(* The executions of run the model explores. *)

Decl(typ, name) == [typ |-> typ, name |-> name]

\* Declarations the extraction may synthesize, and hand-authored ones; one
\* declaration stands in both.
AutoDecls == {Decl("struct", "a"), Decl("flags", "b")}
ManualDecls == {Decl("struct", "a"), Decl("resource", "r")}
\* What an earlier run left in autoFile.
StaleText == <<Decl("type", "old")>>

Iface(files, const, manualDesc, autoDesc) ==
    [Type |-> <<"I">>, Name |-> <<"N">>, Func |-> <<"F">>, Access |-> <<"u">>,
     ManualDescriptions |-> manualDesc, AutoDescriptions |-> autoDesc,
     IdentifyingConst |-> const, Files |-> files, Subsystems |-> <<>>]

\* Interface Records the extraction may return.
IfaceChoices ==
    { Iface(<<>>, "C1", FALSE, TRUE),
      Iface(<<<<"f">>>>, "C2", TRUE, FALSE),
      Iface(<<<<"n">>, <<"f">>>>, "C1", TRUE, TRUE) }

ConstNames == {"C1", "C2"}

\* Executions that vary the description files and the unused nodes.
DescExterns ==
    UNION { { [descriptions |-> d, manual |-> m, interfaces |-> <<>>,
               unusedNodes |-> u, consts |-> (autoFile :> {} @@ manualFile :> {})] :
              u \in SUBSET (Range(ParseText(d, autoFile)) \cup Range(ParseText(m, manualFile))) } :
            <<d, m>> \in SeqsUpTo(AutoDecls, MaxDecls) \X SeqsUpTo(ManualDecls, MaxDecls) }

\* Executions that vary the interfaces and the constants of the files.
IfaceExterns ==
    { [descriptions |-> <<Decl("struct", "a")>>, manual |-> <<Decl("resource", "r")>>,
       interfaces |-> i, unusedNodes |-> {},
       consts |-> (autoFile :> ca @@ manualFile :> cm)] :
      <<i, ca, cm>> \in SeqsUpTo(IfaceChoices, MaxIfaces) \X (SUBSET ConstNames)
                         \X (SUBSET ConstNames) }

\* Trees run is started on: without any table file, and with one.
RunTrees ==
    { TreeOf(<<>>, <<>>),
      TreeOf(<<TblLine(<<"1">>, S_common, <<"x">>, S_sys \o <<"a">>, <<SP>>)>>, <<F_c>>) }

InitRun ==
    /\ tree \in RunTrees
    /\ TblStart
    /\ extern \in DescExterns \cup IfaceExterns
    /\ rpc = "build"
    /\ disk = (autoFile :> StaleText @@ manualFile :> extern.manual)
    /\ diskInfo = <<>>
    /\ descriptions = <<>>
    /\ interfaces = <<>>
    /\ desc = <<>>
    /\ unusedNodes = {}
    /\ consts = <<>>
    /\ unused = {}

NextRun == TblNext \/ RunNext

SpecRun == InitRun /\ [][NextRun]_vars

-----------------------------------------------------------------------------
(* Positions of run. *)

\* The checkpoint is on disk and the last write has not begun.
AfterCheckpoint == {"parse", "unused", "consts", "finish", "prune", "final"}
\* run returned the error of the full parse, of CollectUnused, of ExtractConsts.
CheckAborts == {"failedParse", "failedUnused", "failedConsts"}
\* finishInterfaces has run.
AfterFinish == {"prune", "final", "ok", "failedWriteInfo2", "failedWriteFinal"}
\* The pruning has run.
AfterPrune == {"final", "ok", "failedWriteFinal"}

\* The nodes of the files as the full parse sees them.
ParsedNodes ==
    ParseText(extern.descriptions, autoFile) \o ParseText(extern.manual, manualFile)

\* The Unused-Node Set: the (kind, name) pairs of the nodes CollectUnused returned.
UnusedSet == {<<n.typ, n.name>> : n \in unusedNodes}

-----------------------------------------------------------------------------
\* C3 (as claimed): after the pruning every node parsed from a hand-authored
\* file is still in the document, and a node is removed only when it is in
\* the Unused-Node Set and sourced from the synthesized file.
C3_ManualNodesKept ==
    rpc \in AfterPrune =>
      \A n \in Range(ParsedNodes) :
        /\ n.file # autoFile => n \in Range(desc)
        /\ n \notin Range(desc) => n.file = autoFile /\ <<n.typ, n.name>> \in UnusedSet

\* The node stays in desc.Nodes: it is of the synthesized file and its
\* kind+name is that of no unused node.
StaysInDocument(n) ==
    n.file = autoFile /\ (n.typ \o n.name) \notin {u.typ \o u.name : u \in unusedNodes}

\* C3 (amended): run never writes a hand-authored file, so its declarations
\* stay on disk; the node list left by the pruning holds exactly the nodes
\* of the synthesized file whose kind+name is not unused, and so no
\* hand-authored node, unused or not.
C3_ManualFilesKept ==
    /\ disk[manualFile] = extern.manual
    /\ rpc \in AfterPrune => desc = SelectSeq(ParsedNodes, StaysInDocument)

\* run succeeded on a hand-authored declaration the type-checker found unused.
C3_Witness ==
    /\ rpc = "ok"
    /\ \E n \in unusedNodes : n.file = manualFile /\ n \in Range(ParsedNodes)
    /\ desc # <<>>

-----------------------------------------------------------------------------
\* C4: after the pruning no node of the synthesized file whose (kind, name)
\* is in the Unused-Node Set is in the node list that is formatted, and the
\* final synthesized file holds no such declaration.
C4_UnusedPruned ==
    /\ rpc \in AfterPrune =>
         \A n \in Range(desc) : ~(n.file = autoFile /\ <<n.typ, n.name>> \in UnusedSet)
    /\ rpc = "ok" =>
         \A d \in Range(disk[autoFile]) : <<d.typ, d.name>> \notin UnusedSet

\* run succeeded with an unused synthesized declaration and a used one.
C4_Witness ==
    /\ rpc = "ok"
    /\ \E n \in unusedNodes : n.file = autoFile
    /\ disk[autoFile] # <<>>

-----------------------------------------------------------------------------
\* C7: the synthesized file and the provisional catalog are on disk before
\* the full parse begins; from there until the last write, and when run
\* returns the error of the parse, of the unused-node detection or of the
\* constant extraction, the synthesized file holds the extraction's output.
C7_Checkpoint ==
    /\ rpc \in AfterCheckpoint \cup CheckAborts \cup {"failedWriteInfo2"} =>
         disk[autoFile] = extern.descriptions
    /\ rpc \in {"parse", "unused", "consts"} \cup CheckAborts =>
         diskInfo = serialize(extern.interfaces)

\* run aborted at the unused-node detection over a fresh extraction.
C7_Witness ==
    /\ rpc = "failedUnused"
    /\ extern.descriptions # <<>>
    /\ disk[autoFile] # StaleText

-----------------------------------------------------------------------------
(* C8: the lines of the catalog. *)

\* The pieces of s between the separators.
Split(s, sep) ==
    LET seps == {i \in DOMAIN s : s[i] = sep}
        nth(k) == CHOOSE i \in seps : Cardinality({j \in seps : j < i}) = k - 1
        n == Cardinality(seps)
    IN [k \in 1..(n + 1) |->
          SubSeq(s, IF k = 1 THEN 1 ELSE nth(k - 1) + 1,
                    IF k = n + 1 THEN Len(s) ELSE nth(k) - 1)]

\* The lines of the catalog file, each without its newline.
CatalogLines ==
    LET parts == Split(diskInfo, NL) IN SubSeq(parts, 1, Len(parts) - 1)

IsRepeated(field) == HasPrefix(field, S_file) \/ HasPrefix(field, S_subsystem)

\* No file: field stands after a subsystem: field.
FilesBeforeSubsystems(fields) ==
    \A i, j \in DOMAIN fields :
      HasPrefix(fields[i], S_subsystem) /\ HasPrefix(fields[j], S_file) => j < i

\* C8 (as claimed): every catalog line has seven fixed fields before any
\* file: or subsystem: field, and all file: fields before all subsystem: fields.
C8_SevenFixedFields ==
    \A l \in Range(CatalogLines) :
      LET fields == Split(l, TAB) IN
      /\ Len(fields) >= 7
      /\ \A i \in 1..7 : ~IsRepeated(fields[i])
      /\ FilesBeforeSubsystems(fields)

\* The fields of the record's line.
FieldsOf(iface) ==
    << iface.Type, iface.Name, S_func \o iface.Func, S_access \o iface.Access,
       S_manual \o (IF iface.ManualDescriptions THEN <<"t", "r", "u", "e">>
                    ELSE <<"f", "a", "l", "s", "e">>),
       S_auto \o (IF iface.AutoDescriptions THEN <<"t", "r", "u", "e">>
                  ELSE <<"f", "a", "l", "s", "e">>) >>
      \o [i \in DOMAIN iface.Files |-> S_file \o iface.Files[i]]
      \o [i \in DOMAIN iface.Subsystems |-> S_subsystem \o iface.Subsystems[i]]

\* C8 (amended): every catalog line has the six fixed fields type, name,
\* func:, access:, manual_desc:, auto_desc: in this order before any file:
\* or subsystem: field, every later field is one of these, and all file:
\* fields come before all subsystem: fields; a written catalog has the line
\* of each record.
C8_SixFixedFields ==
    /\ \A l \in Range(CatalogLines) :
         LET fields == Split(l, TAB) IN
         /\ Len(fields) >= 6
         /\ HasPrefix(fields[3], S_func) /\ HasPrefix(fields[4], S_access)
         /\ HasPrefix(fields[5], S_manual) /\ HasPrefix(fields[6], S_auto)
         /\ \A i \in 1..6 : ~IsRepeated(fields[i])
         /\ \A i \in 7..Len(fields) : IsRepeated(fields[i])
         /\ FilesBeforeSubsystems(fields)
    /\ rpc \in AfterCheckpoint \cup CheckAborts \cup {"ok", "failedWriteFinal"} =>
         /\ Len(CatalogLines) = Len(interfaces)
         /\ \A i \in DOMAIN interfaces :
              Split(CatalogLines[i], TAB) = FieldsOf(interfaces[i])

\* The final catalog has a line with file: and subsystem: fields.
C8_Witness ==
    /\ rpc = "ok"
    /\ \E l \in Range(CatalogLines) :
         \E i, j \in DOMAIN Split(l, TAB) :
           /\ HasPrefix(Split(l, TAB)[i], S_file)
           /\ HasPrefix(Split(l, TAB)[j], S_subsystem)

-----------------------------------------------------------------------------
\* C9: after finishInterfaces the manual-description flag of a record is
\* true exactly when its identifying constant is declared by a file other
\* than the synthesized one, whatever the flag was before.
C9_ManualFlag ==
    rpc \in AfterFinish =>
      \A i \in DOMAIN interfaces :
        interfaces[i].ManualDescriptions
          <=> \E f \in DOMAIN consts \ {autoFile} :
                interfaces[i].IdentifyingConst \in consts[f]

\* A record flagged by the extraction whose constant only the synthesized
\* file declares ended unflagged.
C9_Witness ==
    /\ rpc = "ok"
    /\ \E i \in DOMAIN interfaces :
         /\ extern.interfaces[i].ManualDescriptions
         /\ interfaces[i].IdentifyingConst \in consts[autoFile]
         /\ interfaces[i].IdentifyingConst \notin consts[manualFile]
         /\ ~interfaces[i].ManualDescriptions

=============================================================================
